---- MODULE Spec2Model ----
(***************************************************************************)
(* Model of the schema-as-data CRUD backend of src/MasterCRUD/main.py.     *)
(*                                                                         *)
(* The schema store (`collection`, the "masterlist" collection), the       *)
(* per-schema document collections (`db`), the routes generated at startup *)
(* (`routes`) and the wall clock are the state.  Each HTTP handler is one  *)
(* action of the sequential specification Spec; `last` holds the request   *)
(* just served and the response sent for it.                               *)
(*                                                                         *)
(* Representation.                                                         *)
(*   - a Python dict is a function whose DOMAIN is the dict's key set, so  *)
(*     `"unique" in field` is  "unique" \in DOMAIN field;                  *)
(*   - a schema name is a sequence of one-character strings, so that       *)
(*     str.lower() and the `" " in name` test are computed per character;  *)
(*   - a document value is tagged with its Python kind:                    *)
(*     [k |-> "str"|"list"|"dict", v |-> sequence], where v is <<s>> for   *)
(*     the string s, the elements of a list, the keys of a dict in         *)
(*     insertion order (the nested values are never read by the code);     *)
(*   - an ObjectId is a positive integer, its 24-hex text form is          *)
(*     <<"oid", n>>, any other text is malformed;                          *)
(*   - an HTTP response is [status, detail]; a detail is a tuple of the    *)
(*     pieces of the f-string that builds it.                              *)
(***************************************************************************)
EXTENDS Integers, Sequences, FiniteSets, TLC

VARIABLES
    collection,  \* db["masterlist"]: the stored schema documents, in natural order
    db,          \* db[schema_name]: the documents of each schema's collection
    routes,      \* schema name -> the field list its routes were generated from
    started,     \* the startup handler has run
    clock,       \* datetime.now(), in half days
    registered,  \* history: the names for which add_schema has succeeded
    last,        \* the request served last and its response
    proc         \* the create-document requests in flight, one per client

vars == <<collection, db, routes, started, clock, registered, last, proc>>

----------------------------------------------------------------------------
(* Bounds of the model *)

MaxClock == 2     \* the clock runs over 0..MaxClock
MaxSchemas == 2   \* no schema is added once the store holds this many
MaxDocs == 2      \* no document is added once a collection holds this many
MaxListDocs == 4  \* the list endpoint is read on collections of up to this many documents
MaxPage == 4      \* page runs over 0..MaxPage
MaxPageSize == 3  \* page_size runs over 1..MaxPageSize
MaxRows == 2      \* an imported file has 1..MaxRows rows

(* datetime.now().strftime("%d/%m/%Y") keeps the day and drops the time of day *)
TicksPerDay == 2

----------------------------------------------------------------------------
(* Python helpers *)

None == [none |-> TRUE]

Range(s) == {s[i] : i \in DOMAIN s}

\* str.lower() on one character
LowerChar(c) ==
    CASE c = "S" -> "s"
      [] c = "T" -> "t"
      [] OTHER -> c

\* str.lower()
Lower(name) == [i \in DOMAIN name |-> LowerChar(name[i])]

\* `" " in schema_name`
HasSpace(name) == \E i \in DOMAIN name : name[i] = " "

\* datetime.now().strftime("%d/%m/%Y")
Strftime(t) == t \div TicksPerDay

\* dict.get(key, default)
Get(d, key, default) == IF key \in DOMAIN d THEN d[key] ELSE default

Str(s) == [k |-> "str", v |-> <<s>>]
List(xs) == [k |-> "list", v |-> xs]
Dict(keys) == [k |-> "dict", v |-> keys]

\* `value in allowed_values` for allowed_values a list of strings: a list or
\* a dict is never equal to a string
InList(value, allowed) ==
    /\ value.k = "str"
    /\ Len(value.v) = 1
    /\ \E i \in DOMAIN allowed : allowed[i] = value.v[1]

\* `key in value`: dict key, list element, or substring of a string (no key
\* of the model is a proper substring of a string value of the model)
KeyIn(key, value) == \E i \in DOMAIN value.v : value.v[i] = key

\* str(ObjectId) and ObjectId(text); ObjectId raises on malformed text
OidText(n) == <<"oid", n>>
ValidOid(text) == Len(text) = 2 /\ text[1] = "oid"
ObjectId(text) == text[2]

Response(status, detail) == [status |-> status, detail |-> detail]

----------------------------------------------------------------------------
(* The store collaborator: find_one, insert_one, replace_one, update_one *)

\* index of the first document matching {key: value}, 0 when there is none
FindIndex(coll, key, value) ==
    IF \E i \in DOMAIN coll : key \in DOMAIN coll[i] /\ coll[i][key] = value
    THEN CHOOSE i \in DOMAIN coll :
            /\ key \in DOMAIN coll[i] /\ coll[i][key] = value
            /\ \A j \in 1..(i - 1) : ~(key \in DOMAIN coll[j] /\ coll[j][key] = value)
    ELSE 0

\* find_one({key: value}): the first match, None when there is none
FindOne(coll, key, value) ==
    IF FindIndex(coll, key, value) = 0 THEN None
    ELSE coll[FindIndex(coll, key, value)]

\* insert_one(doc): the store assigns the _id (nothing is ever deleted, so
\* the next unused id is the collection's length plus one)
InsertOne(coll, doc) == Append(coll, ("_id" :> (Len(coll) + 1)) @@ doc)

\* replace_one({key: value}, doc): replaces the first match, keeping its _id
ReplaceOne(coll, key, value, doc) ==
    IF FindIndex(coll, key, value) = 0 THEN coll
    ELSE [coll EXCEPT ![FindIndex(coll, key, value)] =
              ("_id" :> coll[FindIndex(coll, key, value)]["_id"]) @@ doc]

\* update_one({"_id": oid}, {"$set": {field: value}})
UpdateOne(coll, oid, field, value) ==
    IF FindIndex(coll, "_id", oid) = 0 THEN coll
    ELSE [coll EXCEPT ![FindIndex(coll, "_id", oid)] =
              (field :> value) @@ coll[FindIndex(coll, "_id", oid)]]

----------------------------------------------------------------------------
(* Request inputs *)

\* schema names a client may send
NameInputs == { <<"s">>, <<"S">>, <<"t">>, <<"T">>, <<"s", " ">>, <<"t", "\t">> }

\* the names a collection can be stored under
StoredNames == { <<"s">>, <<"t">>, <<"t", "\t">> }

fCode == [col_name |-> "code", type |-> "str", unique |-> TRUE]
fCodeN == [col_name |-> "code", type |-> "str", unique |-> FALSE]
fTags == [col_name |-> "tags", type |-> "list", allowed_values |-> <<"A", "B", "C">>]
fInfo == [col_name |-> "info", type |-> "dict",
          dict_keys |-> [email |-> "str", phone |-> "str"]]
fInfoE == [col_name |-> "info", type |-> "dict", dict_keys |-> <<>>]
\* a field carrying a key add_schema does not copy
fCodeX == [col_name |-> "code", type |-> "str", unique |-> TRUE, note |-> "x"]
\* a field without "type"
fBad == [col_name |-> "code"]

FL1 == <<fCode, fInfo>>
FL2 == <<fCodeN, fTags>>
FL3 == <<fCodeX, fInfoE>>
FL4 == <<fBad>>

FieldListInputs == {FL1, FL2, FL3, FL4}

AddSchemaInputs ==
    {[schema_name |-> n, fields |-> F] : n \in NameInputs, F \in FieldListInputs}
    \cup {[schema_name |-> <<"t">>], [fields |-> FL1]}

----------------------------------------------------------------------------
(* add_schema *)

FieldKeys == {"col_name", "type", "unique", "allowed_values", "dict_keys"}

\* a field of the request lacks "col_name" or "type": field["type"] raises KeyError
FieldsRaise(fields) ==
    \E i \in DOMAIN fields : ~({"col_name", "type"} \subseteq DOMAIN fields[i])

\* the loop building processed_fields
ProcessedFields(fields) ==
    [i \in DOMAIN fields |->
        [key \in DOMAIN fields[i] \cap FieldKeys |-> fields[i][key]]]

AddSchemaDuplicate == <<"Schema with the same name already exists">>

\* add_schema looking the name up as sent, without lowering it
AddSchemaResponseRawLookup(coll, schema_data) ==
    IF ~({"schema_name", "fields"} \subseteq DOMAIN schema_data)
    THEN Response(400, <<"Schema data is missing in the request body">>)
    ELSE IF HasSpace(Lower(schema_data.schema_name))
    THEN Response(400, <<"Schema name cannot contain spaces">>)
    ELSE IF FindOne(coll, "schema_name", schema_data.schema_name) # None
    THEN Response(400, AddSchemaDuplicate)
    ELSE IF FieldsRaise(schema_data.fields)
    THEN Response(500, <<"Internal Server Error">>)
    ELSE Response(200, <<"Schema added successfully">>)

\* the response of add_schema(schema_data) on the store `coll`
AddSchemaResponse(coll, schema_data) ==
    IF ~({"schema_name", "fields"} \subseteq DOMAIN schema_data)
    THEN Response(400, <<"Schema data is missing in the request body">>)
    ELSE IF HasSpace(Lower(schema_data.schema_name))
    THEN Response(400, <<"Schema name cannot contain spaces">>)
    ELSE IF FindOne(coll, "schema_name", Lower(schema_data.schema_name)) # None
    THEN Response(400, AddSchemaDuplicate)
    ELSE IF FieldsRaise(schema_data.fields)
    THEN Response(500, <<"Internal Server Error">>)
    ELSE Response(200, <<"Schema added successfully">>)

\* the document add_schema inserts
SchemaDict(schema_data, now) ==
    [schema_name |-> Lower(schema_data.schema_name),
     fields |-> ProcessedFields(schema_data.fields),
     created_at |-> Strftime(now)]

add_schema(schema_data) ==
    /\ started
    /\ LET resp == AddSchemaResponse(collection, schema_data) IN
        /\ resp.status = 200 => Len(collection) < MaxSchemas
        /\ last' = [op |-> "add_schema", req |-> schema_data,
                    status |-> resp.status, detail |-> resp.detail]
        /\ IF resp.status = 200
           THEN /\ collection' = InsertOne(collection, SchemaDict(schema_data, clock))
                /\ registered' = registered \cup {Lower(schema_data.schema_name)}
           ELSE UNCHANGED <<collection, registered>>
    /\ UNCHANGED <<db, routes, started, clock, proc>>

----------------------------------------------------------------------------
(* replace_schema_fields and get_schema_field *)

\* replace_schema_fields without the existence check
ReplaceResponseNoCheck(coll, schema_name) ==
    Response(200, <<"Schema '", schema_name, "' fields replaced successfully">>)

ReplaceResponse(coll, schema_name) ==
    IF FindOne(coll, "schema_name", schema_name) = None
    THEN Response(404, <<"Schema not found">>)
    ELSE Response(200, <<"Schema '", schema_name, "' fields replaced successfully">>)

\* replace_schema_fields stamping no new date (the date of the first day)
NewSchemaDataStale(schema_name, new_fields, now) ==
    [schema_name |-> schema_name, created_at |-> Strftime(0), fields |-> new_fields]

NewSchemaData(schema_name, new_fields, now) ==
    [schema_name |-> schema_name, created_at |-> Strftime(now), fields |-> new_fields]

\* replace_schema_fields followed by a migration pass that drops the stored
\* documents of the schema
replace_schema_fields_migrating(schema_name, new_fields) ==
    /\ started
    /\ LET resp == ReplaceResponse(collection, schema_name) IN
        /\ last' = [op |-> "replace_schema_fields",
                    req |-> [schema_name |-> schema_name, new_fields |-> new_fields],
                    status |-> resp.status, detail |-> resp.detail]
        /\ collection' =
             IF resp.status = 200
             THEN ReplaceOne(collection, "schema_name", schema_name,
                             NewSchemaData(schema_name, new_fields, clock))
             ELSE collection
        /\ db' = IF resp.status = 200 /\ schema_name \in DOMAIN db
                 THEN [db EXCEPT ![schema_name] = <<>>]
                 ELSE db
    /\ UNCHANGED <<routes, started, clock, registered, proc>>

replace_schema_fields(schema_name, new_fields) ==
    /\ started
    /\ LET resp == ReplaceResponse(collection, schema_name) IN
        /\ last' = [op |-> "replace_schema_fields",
                    req |-> [schema_name |-> schema_name, new_fields |-> new_fields],
                    status |-> resp.status, detail |-> resp.detail]
        /\ collection' =
             IF resp.status = 200
             THEN ReplaceOne(collection, "schema_name", schema_name,
                             NewSchemaData(schema_name, new_fields, clock))
             ELSE collection
    /\ UNCHANGED <<db, routes, started, clock, registered, proc>>

\* the response of get_schema_field: the stored document with its _id as text
GetSchemaFieldResponse(coll, schema_name) ==
    IF FindOne(coll, "schema_name", schema_name) = None
    THEN Response(404, <<"Schema not found">>)
    ELSE Response(200,
            [FindOne(coll, "schema_name", schema_name)
                EXCEPT !["_id"] = OidText(@)])

get_schema_field(schema_name) ==
    /\ started
    /\ LET resp == GetSchemaFieldResponse(collection, schema_name) IN
        last' = [op |-> "get_schema_field", req |-> [schema_name |-> schema_name],
                 status |-> resp.status, detail |-> resp.detail]
    /\ UNCHANGED <<collection, db, routes, started, clock, registered, proc>>

----------------------------------------------------------------------------
(* Startup: setup_routes generates the routes of every stored schema *)

\* SchemaModel(**document): every field needs col_name and type; keys the
\* model does not declare are dropped, attributes not given are None (absent)
ValidSchemaDoc(doc) ==
    \A i \in DOMAIN doc.fields : {"col_name", "type"} \subseteq DOMAIN doc.fields[i]

\* the clients whose create-document requests the event loop interleaves
Clients == {"c1", "c2"}

\* the stores the process may find when it starts
InitStores ==
    { <<[_id |-> 1, schema_name |-> <<"s">>, fields |-> F, created_at |-> 0]>> :
        F \in {FL1, FL2} }

Init ==
    /\ collection \in InitStores
    /\ db = [n \in StoredNames |-> <<>>]
    /\ routes = <<>>
    /\ started = FALSE
    /\ clock = 0
    /\ registered = {}
    /\ last = [op |-> "none"]
    /\ proc = [c \in Clients |-> [pc |-> "idle"]]

\* setup_routes generating the routes of the first stored schema only
setup_routes_first_only ==
    /\ ~started
    /\ \A i \in DOMAIN collection : ValidSchemaDoc(collection[i])
    /\ started' = TRUE
    /\ routes' = [n \in {collection[i].schema_name : i \in DOMAIN collection \cap {1}} |->
                    FindOne(collection, "schema_name", n).fields]
    /\ last' = [op |-> "startup"]
    /\ UNCHANGED <<collection, db, clock, registered, proc>>

\* get_schemas builds SchemaModel(**document) for every stored document; a
\* document it rejects makes the startup handler raise and the process exit
setup_routes ==
    /\ ~started
    /\ \A i \in DOMAIN collection : ValidSchemaDoc(collection[i])
    /\ started' = TRUE
    /\ routes' = [n \in {collection[i].schema_name : i \in DOMAIN collection} |->
                    FindOne(collection, "schema_name", n).fields]
    /\ last' = [op |-> "startup"]
    /\ UNCHANGED <<collection, db, clock, registered, proc>>

----------------------------------------------------------------------------
(* The routes of one schema: create-document and update-by-id *)

FieldModel(f) == [key \in DOMAIN f \cap FieldKeys |-> f[key]]

\* `if field.unique`, `if field.allowed_values`, `if field.dict_keys`
Set(fm, attr) ==
    /\ attr \in DOMAIN fm
    /\ IF attr = "unique" THEN fm[attr] = TRUE ELSE DOMAIN fm[attr] # {}

Pass == Response(200, <<"ok">>)
InternalError == Response(500, <<"Internal Server Error">>)

MustBeUnique(col) == Response(400, <<col, " must be unique">>)
InvalidValue(col) == Response(400, <<"Invalid value for ", col>>)
InvalidKey(col, key) == Response(400, <<"Invalid key for ", col, ": ", key>>)

\* index of the first key of a dict value that dict_keys does not declare, 0 if none
FirstBadKey(value, dict_keys) ==
    IF \E i \in DOMAIN value.v : value.v[i] \notin DOMAIN dict_keys
    THEN CHOOSE i \in DOMAIN value.v :
            /\ value.v[i] \notin DOMAIN dict_keys
            /\ \A j \in 1..(i - 1) : value.v[j] \in DOMAIN dict_keys
    ELSE 0

\* the uniqueness lookup made in the masterlist collection, as
\* find_existing_item does, instead of the schema's own collection
CreateUniqueCheckMasterlist(fm, item, coll) ==
    IF ~Set(fm, "unique") THEN Pass
    ELSE IF fm.col_name \notin DOMAIN item THEN InternalError
    ELSE IF FindOne(collection, fm.col_name, item[fm.col_name]) # None
    THEN MustBeUnique(fm.col_name)
    ELSE Pass

\* add_item, `if field.unique:` block
CreateUniqueCheck(fm, item, coll) ==
    IF ~Set(fm, "unique") THEN Pass
    ELSE IF fm.col_name \notin DOMAIN item THEN InternalError
    ELSE IF FindOne(coll, fm.col_name, item[fm.col_name]) # None
    THEN MustBeUnique(fm.col_name)
    ELSE Pass

\* add_item, `if field.allowed_values:` block
CreateAllowedCheck(fm, item) ==
    IF ~Set(fm, "allowed_values") THEN Pass
    ELSE IF fm.col_name \notin DOMAIN item THEN InternalError
    ELSE IF ~InList(item[fm.col_name], fm.allowed_values)
    THEN InvalidValue(fm.col_name)
    ELSE Pass

\* create-document under update's policy: every declared key must be present
CreateDictCheckRequireAll(fm, item) ==
    IF ~(fm.type = "dict" /\ Set(fm, "dict_keys")) THEN Pass
    ELSE LET field_value == Get(item, fm.col_name, Dict(<<>>)) IN
         IF field_value.k # "dict" THEN InternalError
         ELSE IF ~(\A key \in DOMAIN fm.dict_keys : KeyIn(key, field_value))
         THEN InvalidKey(fm.col_name, CHOOSE key \in DOMAIN fm.dict_keys :
                                          ~KeyIn(key, field_value))
         ELSE Pass

\* add_item, `if field.type == "dict" and field.dict_keys:` block
CreateDictCheck(fm, item) ==
    IF ~(fm.type = "dict" /\ Set(fm, "dict_keys")) THEN Pass
    ELSE LET field_value == Get(item, fm.col_name, Dict(<<>>)) IN
         IF field_value.k # "dict" THEN InternalError
         ELSE IF FirstBadKey(field_value, fm.dict_keys) # 0
         THEN InvalidKey(fm.col_name,
                         field_value.v[FirstBadKey(field_value, fm.dict_keys)])
         ELSE Pass

\* one iteration of add_item's validation loop
CreateFieldCheck(fm, item, coll) ==
    IF CreateUniqueCheck(fm, item, coll) # Pass THEN CreateUniqueCheck(fm, item, coll)
    ELSE IF CreateAllowedCheck(fm, item) # Pass THEN CreateAllowedCheck(fm, item)
    ELSE CreateDictCheck(fm, item)

\* add_item's validation loop from field i on: the first failure, else Pass
RECURSIVE CreateValidate(_, _, _, _)
CreateValidate(fields, item, coll, i) ==
    IF i > Len(fields) THEN Pass
    ELSE IF CreateFieldCheck(FieldModel(fields[i]), item, coll) # Pass
    THEN CreateFieldCheck(FieldModel(fields[i]), item, coll)
    ELSE CreateValidate(fields, item, coll, i + 1)

\* the response of add_item(item_data) of schema `name`
AddItemResponse(store, coll, name, item) ==
    LET schema_definition == FindOne(store, "schema_name", name) IN
    IF schema_definition = None THEN Response(404, <<"Schema not found">>)
    ELSE IF ~ValidSchemaDoc(schema_definition) THEN InternalError
    ELSE IF CreateValidate(schema_definition.fields, item, coll, 1) # Pass
    THEN CreateValidate(schema_definition.fields, item, coll, 1)
    ELSE Response(200, <<"Item added successfully">>)

\* item_data.dict() with the modified_date stamp
ItemDataDict(item, now) == ("modified_date" :> Strftime(now)) @@ item

\* values a client may send for a column
ValuesOf(col) ==
    CASE col = "code" -> {Str("x"), Str("y")}
      [] col = "tags" -> {List(<<"A", "B">>), List(<<"A", "D">>)}
      [] col = "info" -> {Dict(<<"email">>), Dict(<<"email", "phone">>),
                          Dict(<<"email", "phone", "ssn">>)}
      [] OTHER -> {Str("x")}

\* CustomModel built by create_model from the startup field list: every
\* column is required and has the column's declared type
Payloads(fields) ==
    {item \in [{fields[i].col_name : i \in DOMAIN fields} ->
                 UNION {ValuesOf(fields[i].col_name) : i \in DOMAIN fields}] :
        \A i \in DOMAIN fields : item[fields[i].col_name] \in ValuesOf(fields[i].col_name)}

add_item(name, item) ==
    /\ started
    /\ name \in DOMAIN routes
    /\ LET resp == AddItemResponse(collection, db[name], name, item) IN
        /\ resp.status = 200 => Len(db[name]) < MaxDocs
        /\ last' = [op |-> "add_item", req |-> [schema_name |-> name, item |-> item],
                    status |-> resp.status, detail |-> resp.detail]
        /\ db' = IF resp.status = 200
                 THEN [db EXCEPT ![name] = InsertOne(@, ItemDataDict(item, clock))]
                 ELSE db
    /\ UNCHANGED <<collection, routes, started, clock, registered, proc>>

----------------------------------------------------------------------------
(* add_item as the event loop runs it: the coroutine gives up control at    *)
(* every await, so requests of several clients interleave between the       *)
(* schema lookup, each field's find_one and the insert_one                  *)

\* the request ends with response resp
Done(p, resp) == [p EXCEPT !.pc = "done"] @@ [status |-> resp.status, detail |-> resp.detail]

\* the position after field i of the validation loop has passed
AfterField(p, i) ==
    IF i >= Len(p.fields) THEN [p EXCEPT !.pc = "insert"]
    ELSE [p EXCEPT !.pc = "check", !.i = i + 1]

\* insert_one on a collection that has a unique index on every unique field:
\* the driver raises DuplicateKeyError, which the handler does not catch
InsertItemResultUniqueIndex(coll, fields, doc) ==
    IF \E i \in DOMAIN fields :
          /\ Set(FieldModel(fields[i]), "unique")
          /\ \E j \in DOMAIN coll : coll[j][fields[i].col_name] = doc[fields[i].col_name]
    THEN [coll |-> coll, resp |-> InternalError]
    ELSE [coll |-> InsertOne(coll, doc), resp |-> Response(200, <<"Item added successfully">>)]

\* insert_one on the schema's collection and the success response
InsertItemResult(coll, fields, doc) ==
    [coll |-> InsertOne(coll, doc), resp |-> Response(200, <<"Item added successfully">>)]

\* the route handler is entered with the validated body
add_item_begin(c, name, item) ==
    /\ started
    /\ name \in DOMAIN routes
    /\ proc[c].pc = "idle"
    /\ proc' = [proc EXCEPT ![c] = [pc |-> "fetch", schema_name |-> name, item |-> item]]
    /\ UNCHANGED <<collection, db, routes, started, clock, registered, last>>

\* await collection.find_one({"schema_name": ...}), then SchemaModel(**...)
add_item_fetch(c) ==
    /\ proc[c].pc = "fetch"
    /\ LET p == proc[c]
           schema_definition == FindOne(collection, "schema_name", p.schema_name) IN
        proc' = [proc EXCEPT ![c] =
            IF schema_definition = None THEN Done(p, Response(404, <<"Schema not found">>))
            ELSE IF ~ValidSchemaDoc(schema_definition) THEN Done(p, InternalError)
            ELSE AfterField(p @@ [fields |-> schema_definition.fields, i |-> 1,
                                  modified_date |-> Strftime(clock)], 0)]
    /\ UNCHANGED <<collection, db, routes, started, clock, registered, last>>

\* one iteration of the validation loop, on the collection as it is now (the
\* checks that follow the find_one are local, so the iteration is one step)
add_item_check(c) ==
    /\ proc[c].pc = "check"
    /\ LET p == proc[c]
           r == CreateFieldCheck(FieldModel(p.fields[p.i]), p.item, db[p.schema_name]) IN
        proc' = [proc EXCEPT ![c] = IF r # Pass THEN Done(p, r) ELSE AfterField(p, p.i)]
    /\ UNCHANGED <<collection, db, routes, started, clock, registered, last>>

\* await item_collection.insert_one(item_data)
add_item_insert(c) ==
    /\ proc[c].pc = "insert"
    /\ LET p == proc[c]
           r == InsertItemResult(db[p.schema_name], p.fields,
                                 ("modified_date" :> p.modified_date) @@ p.item) IN
        /\ db' = [db EXCEPT ![p.schema_name] = r.coll]
        /\ proc' = [proc EXCEPT ![c] = Done(p, r.resp)]
    /\ UNCHANGED <<collection, routes, started, clock, registered, last>>

----------------------------------------------------------------------------
(* get_items: the list endpoint of a schema *)

\* cursor.skip(n) and cursor.limit(n) on the documents in natural order
Skip(docs, n) == SubSeq(docs, n + 1, Len(docs))
Limit(docs, n) == SubSeq(docs, 1, IF n < Len(docs) THEN n ELSE Len(docs))

\* item['_id'] = str(item['_id'])
WithIdText(docs) == [i \in DOMAIN docs |-> [docs[i] EXCEPT !["_id"] = OidText(@)]]

\* the list endpoint counting pages from zero
GetItemsZeroBased(coll, page, page_size) ==
    LET skip == page * page_size IN
    IF skip < 0 THEN InternalError
    ELSE Response(200, WithIdText(Limit(Skip(coll, skip), page_size)))

\* the response of get_items(page, page_size); cursor.skip raises ValueError
\* on a negative number, which nothing catches
GetItems(coll, page, page_size) ==
    LET skip == (page - 1) * page_size IN
    IF skip < 0 THEN InternalError
    ELSE Response(200, WithIdText(Limit(Skip(coll, skip), page_size)))

get_items(name, page, page_size) ==
    /\ started
    /\ name \in DOMAIN routes
    /\ LET resp == GetItems(db[name], page, page_size) IN
        last' = [op |-> "get_items",
                 req |-> [schema_name |-> name, page |-> page, page_size |-> page_size],
                 status |-> resp.status, detail |-> resp.detail]
    /\ UNCHANGED <<collection, db, routes, started, clock, registered, proc>>

\* the collections the list endpoint may find: documents created one by one
\* (under a field list that had code not unique where two hold the same code)
ListCollections ==
    UNION {{[i \in 1..n |-> ("_id" :> i) @@
                [modified_date |-> 0, code |-> f[i], info |-> Dict(<<"email">>)]] :
              f \in [1..n -> ValuesOf("code")]} : n \in 0..MaxListDocs}

InitList ==
    /\ collection \in InitStores
    /\ db \in {[n \in StoredNames |-> IF n = <<"s">> THEN c ELSE <<>>] : c \in ListCollections}
    /\ routes = <<>>
    /\ started = FALSE
    /\ clock = 0
    /\ registered = {}
    /\ last = [op |-> "none"]
    /\ proc = [c \in Clients |-> [pc |-> "idle"]]

----------------------------------------------------------------------------
(* import_data: batch import of a CSV or Excel file *)

\* A cell of the DataFrame is a string, held as the tokens of its text
\* (<<"x">> for x, <<"{", "email", "}">> for the text of a JSON object with
\* the key email), or NaN for an empty cell.
Text(tokens) == [k |-> "str", v |-> tokens]
NaN == [k |-> "nan", v |-> <<>>]

\* json.loads(text.replace("'", '"')): the text of an object or of an array
\* parses, any other text of the model raises JSONDecodeError
JsonParses(cell) ==
    /\ Len(cell.v) >= 2
    /\ \/ cell.v[1] = "{" /\ cell.v[Len(cell.v)] = "}"
       \/ cell.v[1] = "[" /\ cell.v[Len(cell.v)] = "]"

JsonLoads(cell) ==
    IF cell.v[1] = "{" THEN Dict(SubSeq(cell.v, 2, Len(cell.v) - 1))
    ELSE List(SubSeq(cell.v, 2, Len(cell.v) - 1))

\* the body of `for field in schema_definition['fields']` for one field; acc
\* is [item, errors, raises], raises standing for an exception nothing catches
ImportField(field, row, coll, acc) ==
    IF acc.raises THEN acc
    ELSE IF "col_name" \notin DOMAIN field THEN [acc EXCEPT !.raises = TRUE]
    ELSE LET col_name == field.col_name IN
    IF col_name \notin DOMAIN row
    THEN [acc EXCEPT !.errors = Append(@, <<"Missing column: ", col_name>>)]
    ELSE IF "type" \notin DOMAIN field THEN [acc EXCEPT !.raises = TRUE]
    ELSE IF field.type = "dict"
    THEN IF row[col_name].k # "str" THEN [acc EXCEPT !.raises = TRUE]
         ELSE IF JsonParses(row[col_name])
         THEN [acc EXCEPT !.item = (col_name :> JsonLoads(row[col_name])) @@ @]
         ELSE [acc EXCEPT !.errors =
                  Append(@, <<"Invalid JSON format for column: ", col_name>>)]
    ELSE LET e1 == IF "allowed_values" \in DOMAIN field
                      /\ ~InList(row[col_name], field.allowed_values)
                   THEN <<<<"Invalid value for ", col_name>>>> ELSE <<>>
             e2 == IF Get(field, "unique", FALSE) = TRUE
                      /\ FindOne(coll, col_name, row[col_name]) # None
                   THEN <<<<col_name, " must be unique">>>> ELSE <<>>
         IN [acc EXCEPT !.errors = @ \o e1 \o e2,
                        !.item = (col_name :> row[col_name]) @@ @]

\* one row through the fields from field i on
RECURSIVE ImportRow(_, _, _, _, _)
ImportRow(fields, row, coll, i, acc) ==
    IF i > Len(fields) THEN acc
    ELSE ImportRow(fields, row, coll, i + 1, ImportField(fields[i], row, coll, acc))

\* `for _, row in df.iterrows()` from row r on; acc is
\* [valid_data, invalid_data, raises]
RECURSIVE ImportRows(_, _, _, _, _, _)
ImportRows(fields, rows, coll, now, r, acc) ==
    IF r > Len(rows) \/ acc.raises THEN acc
    ELSE LET one == ImportRow(fields, rows[r], coll, 1,
                              [item |-> <<>>, errors |-> <<>>, raises |-> FALSE])
             item_data == ("modified_date" :> Strftime(now)) @@ one.item
         IN ImportRows(fields, rows, coll, now, r + 1,
               IF one.raises THEN [acc EXCEPT !.raises = TRUE]
               ELSE IF one.errors # <<>>
               THEN [acc EXCEPT !.invalid_data =
                        Append(@, [data |-> rows[r], errors |-> one.errors])]
               ELSE [acc EXCEPT !.valid_data = Append(@, item_data)])

\* insert_many: the documents are inserted in order
RECURSIVE InsertMany(_, _)
InsertMany(coll, docs) ==
    IF docs = <<>> THEN coll
    ELSE InsertMany(InsertOne(coll, Head(docs)), Tail(docs))

ImportMessage(valid_data, invalid_data) ==
    IF Len(invalid_data) = 0 THEN <<"All", " datas imported ">>
    ELSE IF Len(valid_data) = 0 THEN <<"No", " datas imported ">>
    ELSE <<"Some", " datas imported ">>

\* the effect of import_data(file) on the schema's collection and its response
ImportDataResult(store, coll, name, file, now) ==
    LET schema_definition == FindOne(store, "schema_name", name) IN
    IF schema_definition = None
    THEN [coll |-> coll, resp |-> Response(404, <<"Schema not found">>)]
    ELSE IF file.ext \notin {"csv", "xlsx"}
    THEN [coll |-> coll,
          resp |-> Response(400, <<"Only Excel (xlsx) or CSV files are allowed">>)]
    ELSE LET out == ImportRows(schema_definition.fields, file.rows, coll, now, 1,
                       [valid_data |-> <<>>, invalid_data |-> <<>>, raises |-> FALSE])
         IN IF out.raises THEN [coll |-> coll, resp |-> InternalError]
            ELSE [coll |-> InsertMany(coll, out.valid_data),
                  resp |-> Response(200,
                              [message |-> ImportMessage(out.valid_data, out.invalid_data),
                               invalid_data |-> out.invalid_data])]

import_data(name, file) ==
    /\ started
    /\ name \in DOMAIN routes
    /\ LET r == ImportDataResult(collection, db[name], name, file, clock) IN
        /\ Len(r.coll) <= MaxDocs
        /\ last' = [op |-> "import_data", req |-> [schema_name |-> name, file |-> file],
                    status |-> r.resp.status, detail |-> r.resp.detail]
        /\ db' = [db EXCEPT ![name] = r.coll]
    /\ UNCHANGED <<collection, routes, started, clock, registered, proc>>

\* cells a file may hold in a column
CellsOf(col) ==
    CASE col = "code" -> {Text(<<"x">>), Text(<<"y">>)}
      [] col = "tags" -> {Text(<<"A">>), Text(<<"[", "A", "B", "]">>)}
      [] col = "info" -> {Text(<<"{", "email", "}">>), Text(<<"{", "email", "ssn", "}">>),
                          Text(<<"z">>), NaN}
      [] OTHER -> {Text(<<"x">>)}

\* the rows of a DataFrame with the given columns
RowsOf(cols) ==
    {row \in [cols -> UNION {CellsOf(c) : c \in cols}] : \A c \in cols : row[c] \in CellsOf(c)}

\* uploaded files: the columns of a schema, or the code column alone
FileInputs ==
    {[ext |-> "csv", rows |-> rows] :
        rows \in UNION {UNION {[1..n -> RowsOf(cols)] : n \in 1..MaxRows} :
                          cols \in {{"code", "info"}, {"code", "tags"}, {"code"}}}}
    \cup {[ext |-> "xlsx", rows |-> <<[code |-> Text(<<"x">>)]>>],
          [ext |-> "txt", rows |-> <<[code |-> Text(<<"x">>)]>>]}

----------------------------------------------------------------------------
(* get_items_by_fields: the filter endpoint of a schema *)

\* A filter string is held as its tokens: words and the separators "," and
\* ":"; no two words are adjacent.

\* str.split(sep): the pieces between the occurrences of sep
RECURSIVE Split(_, _)
Split(str, sep) ==
    IF \A i \in DOMAIN str : str[i] # sep THEN <<str>>
    ELSE LET i == CHOOSE j \in DOMAIN str :
                    str[j] = sep /\ \A h \in 1..(j - 1) : str[h] # sep
         IN <<SubSeq(str, 1, i - 1)>> \o Split(SubSeq(str, i + 1, Len(str)), sep)

\* the string of a piece: a word, or the empty string
Word(piece) == IF piece = <<>> THEN "" ELSE piece[1]

\* `field, value = f.split(':')` raises ValueError unless there are two pieces
Unpacks(f) == Len(Split(f, ":")) = 2

\* FilterItem(field=field, value=value) of a segment
FilterItem(f) == [field |-> Word(Split(f, ":")[1]), value |-> Word(Split(f, ":")[2])]

\* query[item.field] = item.value for the items from item i on
RECURSIVE BuildQuery(_, _, _)
BuildQuery(filter_items, i, query) ==
    IF i > Len(filter_items) THEN query
    ELSE BuildQuery(filter_items, i + 1,
            [x \in DOMAIN query \cup {filter_items[i].field} |->
                IF x = filter_items[i].field THEN filter_items[i].value ELSE query[x]])

\* a document matches {field: value}: the field is that string, or a list
\* holding it
Matches(doc, query) ==
    \A x \in DOMAIN query :
        /\ x \in DOMAIN doc
        /\ x \notin {"_id", "modified_date"}
        /\ \/ doc[x].k = "str" /\ doc[x].v = <<query[x]>>
           \/ doc[x].k = "list" /\ query[x] \in Range(doc[x].v)

\* the response of get_items_by_fields and the query it sent to the
\* collection; a ValueError of parse_filter_string is caught nowhere
GetItemsByFields(coll, filter_str) ==
    LET filters == Split(filter_str, ",") IN
    IF \E i \in DOMAIN filters : ~Unpacks(filters[i])
    THEN [resp |-> InternalError, query |-> None]
    ELSE LET query == BuildQuery([i \in DOMAIN filters |-> FilterItem(filters[i])],
                                 1, <<>>)
         IN [resp |-> Response(200, WithIdText(SelectSeq(coll,
                                        LAMBDA doc : Matches(doc, query)))),
             query |-> query]

get_items_by_fields(name, filter_str) ==
    /\ started
    /\ name \in DOMAIN routes
    /\ LET r == GetItemsByFields(db[name], filter_str) IN
        last' = [op |-> "get_items_by_fields",
                 req |-> [schema_name |-> name, filter |-> filter_str],
                 status |-> r.resp.status, detail |-> r.resp.detail, query |-> r.query]
    /\ UNCHANGED <<collection, db, routes, started, clock, registered, proc>>

\* filter strings a client may send
FilterInputs ==
    { <<"code", ":", "x">>, <<"code", ":", "y">>,
      <<"code", ":", "x", ",", "modified", ":", "0">>,
      <<"status", ":", "active", ",", "age", ":", "30">>,
      <<"code", ":", "x", ",", "code", ":", "y">>,
      <<"status">>, <<"code", ":", "x", ",", "status">>,
      <<"code", ":", "x", ":", "y">>, <<"code", ":">>, <<>> }

----------------------------------------------------------------------------
(* get_item_by_id *)

\* response_model=CustomModel: the stored document must have every column of
\* the startup field list, of the column's kind; the other keys are dropped
FitsCustomModel(fields, doc) ==
    \A i \in DOMAIN fields :
        /\ fields[i].col_name \in DOMAIN doc
        /\ doc[fields[i].col_name].k = fields[i].type

\* the response of get_item_by_id(id); ObjectId(id) is built outside any try
GetItemById(fields, coll, id) ==
    IF ~ValidOid(id) THEN InternalError
    ELSE LET item == FindOne(coll, "_id", ObjectId(id)) IN
         IF item = None THEN Response(404, <<"Item not found for ID: ", id>>)
         ELSE IF ~FitsCustomModel(fields, item) THEN InternalError
         ELSE Response(200, [c \in {fields[i].col_name : i \in DOMAIN fields} |-> item[c]])

get_item_by_id(name, id) ==
    /\ started
    /\ name \in DOMAIN routes
    /\ LET resp == GetItemById(routes[name], db[name], id) IN
        last' = [op |-> "get_item_by_id", req |-> [schema_name |-> name, id |-> id],
                 status |-> resp.status, detail |-> resp.detail]
    /\ UNCHANGED <<collection, db, routes, started, clock, registered, proc>>

----------------------------------------------------------------------------
(* add_schema as the event loop runs it: the coroutine gives up control at   *)
(* `await collection.find_one` and at `await collection.insert_one`          *)

\* the request up to its insert_one: the checks, on the store as find_one
\* reads it, and the document built for insertion
add_schema_check(c, schema_data) ==
    /\ started
    /\ proc[c].pc = "idle"
    /\ Len(collection) < MaxSchemas
    /\ LET resp == AddSchemaResponse(collection, schema_data) IN
        proc' = [proc EXCEPT ![c] =
            IF resp.status # 200
            THEN [pc |-> "done", schema_data |-> schema_data,
                  status |-> resp.status, detail |-> resp.detail]
            ELSE [pc |-> "insert_schema", schema_data |-> schema_data,
                  schema_dict |-> SchemaDict(schema_data, clock)]]
    /\ UNCHANGED <<collection, db, routes, started, clock, registered, last>>

\* await collection.insert_one(schema_dict) and the success response
add_schema_insert(c) ==
    /\ proc[c].pc = "insert_schema"
    /\ collection' = InsertOne(collection, proc[c].schema_dict)
    /\ registered' = registered \cup {proc[c].schema_dict.schema_name}
    /\ proc' = [proc EXCEPT ![c] =
                  [pc |-> "done", schema_data |-> proc[c].schema_data,
                   status |-> 200, detail |-> <<"Schema added successfully">>]]
    /\ UNCHANGED <<db, routes, started, clock, last>>

----------------------------------------------------------------------------
(* The variant src/Github mowlee/mainthree.py: add_schema creates a unique   *)
(* index on the schema's collection; add_item and update_item of a schema.   *)
(* Its schema store is `collection`, its collections are `db`, its routes    *)
(* `routes` and its requests in flight `proc`.                               *)

\* fields of the variant: unique is the flag "Y" or "N"
m3Code == [col_name |-> "code", type |-> "str", unique |-> "Y"]
m3Name == [col_name |-> "name", type |-> "str", unique |-> "N"]

\* the stores the variant may find when it starts: schema s registered by
\* add_schema with one field or with two
MainThreeStores ==
    { <<[_id |-> 1, schema_name |-> <<"s">>, fields |-> F, created_at |-> 0]>> :
        F \in {<<m3Code>>, <<m3Code, m3Name>>} }

MainThreeInit ==
    /\ collection \in MainThreeStores
    /\ db = [n \in StoredNames |-> <<>>]
    /\ routes = <<>>
    /\ started = FALSE
    /\ clock = 0
    /\ registered = {}
    /\ last = [op |-> "none"]
    /\ proc = [c \in Clients |-> [pc |-> "idle"]]

\* add_schema: create_index(list(schema_fields.items()), unique=True), one
\* compound index whose keys are all the columns but created_at
IndexKeys(fields) ==
    {fields[i].col_name : i \in DOMAIN fields} \ {"created_at"}

\* the unique index refuses a document whose values under all the index keys
\* equal those of a stored document other than `self`
DuplicateKey(coll, keys, doc, self) ==
    \E j \in DOMAIN coll :
        /\ coll[j]["_id"] # self
        /\ \A key \in keys : Get(coll[j], key, None) = Get(doc, key, None)

\* values a client may send for a column of the variant
MainThreeValuesOf(col) ==
    IF col = "code" THEN {Str("x"), Str("y")} ELSE {Str("a"), Str("b")}

MainThreePayloads(fields) ==
    {item \in [{fields[i].col_name : i \in DOMAIN fields} ->
                 UNION {MainThreeValuesOf(fields[i].col_name) : i \in DOMAIN fields}] :
        \A i \in DOMAIN fields :
            item[fields[i].col_name] \in MainThreeValuesOf(fields[i].col_name)}

\* add_item up to its first await: item.dict() and the created_at stamp
mainthree_add_item_begin(c, name, item) ==
    /\ started
    /\ name \in DOMAIN routes
    /\ proc[c].pc = "idle"
    /\ proc' = [proc EXCEPT ![c] =
                  [pc |-> "m3_fetch", schema_name |-> name,
                   item_data |-> ("created_at" :> Strftime(clock)) @@ item]]
    /\ UNCHANGED <<collection, db, routes, started, clock, registered, last>>

\* the position after field i of `for field in schema.fields` has passed
MainThreeAfterField(p, fields, i) ==
    IF i >= Len(fields) THEN [p EXCEPT !.pc = "m3_insert"]
    ELSE [pc |-> "m3_check", i |-> i + 1] @@ p

\* await collection.find_one({"schema_name": schema_name}); without a stored
\* definition the uniqueness checks are skipped
mainthree_add_item_fetch(c) ==
    /\ proc[c].pc = "m3_fetch"
    /\ LET p == proc[c] IN
        proc' = [proc EXCEPT ![c] =
            IF FindOne(collection, "schema_name", p.schema_name) = None
            THEN [p EXCEPT !.pc = "m3_insert"]
            ELSE MainThreeAfterField(p, routes[p.schema_name], 0)]
    /\ UNCHANGED <<collection, db, routes, started, clock, registered, last>>

\* one iteration over schema.fields, the field list of the startup closure
mainthree_add_item_check(c) ==
    /\ proc[c].pc = "m3_check"
    /\ LET p == proc[c]
           field == routes[p.schema_name][p.i] IN
        proc' = [proc EXCEPT ![c] =
            IF field.unique = "Y"
               /\ FindOne(db[p.schema_name], field.col_name,
                          p.item_data[field.col_name]) # None
            THEN [pc |-> "done", status |-> 400,
                  detail |-> <<field.col_name, " must be unique">>] @@ p
            ELSE MainThreeAfterField(p, routes[p.schema_name], p.i)]
    /\ UNCHANGED <<collection, db, routes, started, clock, registered, last>>

\* await db[schema_name].insert_one(item_data): the index of a stored
\* definition may refuse it with DuplicateKeyError, which nothing catches
mainthree_add_item_insert(c) ==
    /\ proc[c].pc = "m3_insert"
    /\ LET p == proc[c]
           def == FindOne(collection, "schema_name", p.schema_name)
           refused == /\ def # None
                      /\ DuplicateKey(db[p.schema_name], IndexKeys(def.fields),
                                      p.item_data, 0) IN
        /\ db' = IF refused THEN db
                 ELSE [db EXCEPT ![p.schema_name] = InsertOne(@, p.item_data)]
        /\ proc' = [proc EXCEPT ![c] =
              IF refused
              THEN [pc |-> "done", status |-> 500,
                    detail |-> <<"Internal Server Error">>] @@ p
              ELSE [pc |-> "done", status |-> 200,
                    detail |-> <<"Item added successfully">>] @@ p]
    /\ UNCHANGED <<collection, routes, started, clock, registered, last>>

\* the effect of update_item(item_id, item): update_one with $set, and
\* modified_count, which counts the documents the update changed
MainThreeUpdateItem(store, coll, name, item_id, item, now) ==
    IF ~ValidOid(item_id) THEN [coll |-> coll, resp |-> InternalError]
    ELSE LET item_data == ("created_at" :> Strftime(now)) @@ item
             i == FindIndex(coll, "_id", ObjectId(item_id))
             def == FindOne(store, "schema_name", name)
         IN IF i = 0 THEN [coll |-> coll, resp |-> Response(404, <<"Item not found">>)]
            ELSE LET doc == [key \in DOMAIN coll[i] \cup DOMAIN item_data |->
                               IF key \in DOMAIN item_data THEN item_data[key]
                               ELSE coll[i][key]]
                 IN IF def # None /\ DuplicateKey(coll, IndexKeys(def.fields), doc,
                                                  ObjectId(item_id))
                    THEN [coll |-> coll, resp |-> InternalError]
                    ELSE IF doc = coll[i]
                    THEN [coll |-> coll, resp |-> Response(404, <<"Item not found">>)]
                    ELSE [coll |-> [coll EXCEPT ![i] = doc],
                          resp |-> Response(200, <<"Item updated successfully">>)]

mainthree_update_item(name, item_id, item) ==
    /\ started
    /\ name \in DOMAIN routes
    /\ LET r == MainThreeUpdateItem(collection, db[name], name, item_id, item, clock) IN
        /\ last' = [op |-> "update_item",
                    req |-> [schema_name |-> name, item_id |-> item_id, item |-> item],
                    status |-> r.resp.status, detail |-> r.resp.detail]
        /\ db' = [db EXCEPT ![name] = r.coll]
    /\ UNCHANGED <<collection, routes, started, clock, registered, proc>>

----------------------------------------------------------------------------
(* update_schema_item *)

\* index of the first field satisfying P, 0 when there is none
First(fields, P(_)) ==
    IF \E i \in DOMAIN fields : P(fields[i])
    THEN CHOOSE i \in DOMAIN fields :
            P(fields[i]) /\ \A j \in 1..(i - 1) : ~P(fields[j])
    ELSE 0

FieldNotFound(field_name, schema_name) ==
    Response(400, <<"Field '", field_name, "' not found in schema '", schema_name, "'">>)
NotAllowed(field_name, allowed) ==
    Response(400, <<"Invalid value for ", field_name, ". Allowed values are: ", allowed>>)
MissingKeys(field_name, dict_keys) ==
    Response(400, <<"Missing keys for ", field_name, ". Required keys are: ",
                    DOMAIN dict_keys>>)

\* field["col_name"] raises KeyError
NoName(f) == "col_name" \notin DOMAIN f
\* field["col_name"] == field_name and field["type"] ... raises KeyError
NoType(f, field_name) ==
    NoName(f) \/ (f.col_name = field_name /\ "type" \notin DOMAIN f)

\* field_exists = any(field["col_name"] == field_name for field in fields)
UpdateExistsCheck(fields, field_name, schema_name) ==
    LET i == First(fields, LAMBDA f : NoName(f) \/ f.col_name = field_name) IN
    IF i = 0 THEN FieldNotFound(field_name, schema_name)
    ELSE IF NoName(fields[i]) THEN InternalError
    ELSE Pass

\* the loop "validate the field value against allowed values if the field is a string"
UpdateStrCheck(fields, field_name, updated_value) ==
    LET i == First(fields, LAMBDA f :
                 \/ NoType(f, field_name)
                 \/ /\ f.col_name = field_name /\ f.type = "str"
                    /\ "allowed_values" \in DOMAIN f
                    /\ ~InList(updated_value, f.allowed_values)) IN
    IF i = 0 THEN Pass
    ELSE IF NoType(fields[i], field_name) THEN InternalError
    ELSE NotAllowed(field_name, fields[i].allowed_values)

\* the uniqueness check of update without the comparison of identifiers
UpdateUniqueCheckAnyMatch(fields, field_name, updated_value, coll, object_id) ==
    IF \E i \in DOMAIN fields :
          /\ fields[i].col_name = field_name
          /\ "unique" \in DOMAIN fields[i] /\ fields[i].unique = TRUE
          /\ FindOne(coll, field_name, updated_value) # None
    THEN MustBeUnique(field_name)
    ELSE Pass

\* the loop "check if the field is marked as unique": the first unique field
\* of that name decides (break); the match is the first document holding the value
UpdateUniqueCheck(fields, field_name, updated_value, coll, object_id) ==
    LET i == First(fields, LAMBDA f :
                 \/ NoName(f)
                 \/ /\ f.col_name = field_name
                    /\ "unique" \in DOMAIN f /\ f.unique = TRUE) IN
    IF i = 0 THEN Pass
    ELSE IF NoName(fields[i]) THEN InternalError
    ELSE LET existing_item_with_value == FindOne(coll, field_name, updated_value) IN
         IF /\ existing_item_with_value # None
            /\ existing_item_with_value["_id"] # object_id
         THEN MustBeUnique(field_name)
         ELSE Pass

\* `"dict_keys" in field and not all(key in updated_value for key in field["dict_keys"])`
UpdateKeysFail(f, updated_value) ==
    /\ "dict_keys" \in DOMAIN f
    /\ ~(\A key \in DOMAIN f.dict_keys : KeyIn(key, updated_value))

\* the loop "for list and dict types, validate against allowed_values and dict_keys"
UpdateListDictCheck(fields, field_name, updated_value) ==
    LET AllowedFail(f) == /\ "allowed_values" \in DOMAIN f
                          /\ ~InList(updated_value, f.allowed_values)
        i == First(fields, LAMBDA f :
                 \/ NoType(f, field_name)
                 \/ /\ f.col_name = field_name /\ f.type \in {"list", "dict"}
                    /\ (AllowedFail(f) \/ UpdateKeysFail(f, updated_value))) IN
    IF i = 0 THEN Pass
    ELSE IF NoType(fields[i], field_name) THEN InternalError
    ELSE IF AllowedFail(fields[i]) THEN NotAllowed(field_name, fields[i].allowed_values)
    ELSE MissingKeys(field_name, fields[i].dict_keys)

\* the checks of one (field_name, updated_value) pair, in the code's order
UpdateFieldCheck(fields, schema_name, field_name, updated_value, coll, object_id) ==
    IF UpdateExistsCheck(fields, field_name, schema_name) # Pass
    THEN UpdateExistsCheck(fields, field_name, schema_name)
    ELSE IF UpdateStrCheck(fields, field_name, updated_value) # Pass
    THEN UpdateStrCheck(fields, field_name, updated_value)
    ELSE IF UpdateUniqueCheck(fields, field_name, updated_value, coll, object_id) # Pass
    THEN UpdateUniqueCheck(fields, field_name, updated_value, coll, object_id)
    ELSE UpdateListDictCheck(fields, field_name, updated_value)

UpdateSuccess(id, schema_name) ==
    Response(200, <<"Fields updated successfully for item with ID '", id,
                    "' in collection '", schema_name, "'">>)

\* the loop over updated_fields.items() from pair i on: each pair is checked
\* and then written at once; the result is the collection and the response
RECURSIVE UpdateLoop(_, _, _, _, _, _)
UpdateLoop(coll, fields, schema_name, id, updated_fields, i) ==
    IF i > Len(updated_fields)
    THEN [coll |-> coll, resp |-> UpdateSuccess(id, schema_name)]
    ELSE LET field_name == updated_fields[i][1]
             updated_value == updated_fields[i][2]
             check == UpdateFieldCheck(fields, schema_name, field_name, updated_value,
                                       coll, ObjectId(id))
         IN IF check # Pass THEN [coll |-> coll, resp |-> check]
            ELSE UpdateLoop(UpdateOne(coll, ObjectId(id), field_name, updated_value),
                            fields, schema_name, id, updated_fields, i + 1)

\* update_schema_item(id, updated_fields) of schema `name`: collection and response
UpdateResult(store, coll, name, id, updated_fields) ==
    IF ~ValidOid(id) THEN [coll |-> coll, resp |-> Response(400, <<"Invalid ObjectId">>)]
    ELSE LET schema_definition == FindOne(store, "schema_name", name) IN
         IF schema_definition = None
         THEN [coll |-> coll, resp |-> Response(200, <<"Schema '", name, "' not found">>)]
         ELSE UpdateLoop(coll, schema_definition.fields, name, id, updated_fields, 1)

update_schema_item(name, id, updated_fields) ==
    /\ started
    /\ name \in DOMAIN routes
    /\ LET r == UpdateResult(collection, db[name], name, id, updated_fields) IN
        /\ last' = [op |-> "update_schema_item",
                    req |-> [schema_name |-> name, id |-> id,
                             updated_fields |-> updated_fields],
                    status |-> r.resp.status, detail |-> r.resp.detail]
        /\ db' = [db EXCEPT ![name] = r.coll]
    /\ UNCHANGED <<collection, routes, started, clock, registered, proc>>

\* the update bodies a client may send: (field, value) pairs in the body's order
UpdateBodies ==
    {<<<<c, v>>>> : c \in {"code"}, v \in ValuesOf("code")}
    \cup {<<<<"info", v>>>> : v \in ValuesOf("info")}
    \cup { <<<<"tags", List(<<"A", "B">>)>>>>,
           <<<<"bogus", Str("x")>>>>,
           <<<<"code", Str("y")>>, <<"info", Dict(<<"email">>)>>>>,
           <<<<"info", Dict(<<"email", "phone">>)>>, <<"code", Str("x")>>>> }

\* the record identifiers a client may send
IdInputs == {OidText(1), OidText(2)}

UpdateInputs ==
    {[id |-> id, updated_fields |-> b] : id \in IdInputs, b \in UpdateBodies}
    \cup {[id |-> <<"zz">>, updated_fields |-> <<<<"code", Str("x")>>>>]}

----------------------------------------------------------------------------
(* The variant src/Sharath - GIT/Backend.py: add_item and update_schema_item *)
(* of a schema, which validate against `fields`, the field list the routes   *)
(* were generated from.  An attribute a field does not give is None.         *)

bStatus == [col_name |-> "status", type |-> "str", unique |-> FALSE,
            allowed_values |-> <<"A", "B", "C">>]
bInfo == [col_name |-> "info", type |-> "dict", unique |-> FALSE,
          dict_keys |-> [email |-> "str", phone |-> "str"]]

\* the stores the variant may find when it starts
BackendStores ==
    { <<[_id |-> 1, schema_name |-> <<"s">>, fields |-> F, created_at |-> 0]>> :
        F \in {<<fCodeN, bStatus>>, <<bStatus, fCodeN>>, <<fCode, bStatus>>,
               <<fCodeN, bInfo>>} }

BackendInit ==
    /\ collection \in BackendStores
    /\ db = [n \in StoredNames |-> <<>>]
    /\ routes = <<>>
    /\ started = FALSE
    /\ clock = 0
    /\ registered = {}
    /\ last = [op |-> "none"]
    /\ proc = [c \in Clients |-> [pc |-> "idle"]]

\* values a client may send for a column of the variant
BackendValuesOf(col) ==
    CASE col = "code" -> {Str("x"), Str("A")}
      [] col = "status" -> {Str("A"), Str("x")}
      [] col = "info" -> {Dict(<<"email">>), Dict(<<"email", "ssn">>)}
      [] OTHER -> {Str("x")}

BackendMustBeOneOf(col, allowed) == Response(400, <<col, " must be one of ", allowed>>)

\* {k: v for k, v in value.items() if k in field.dict_keys}
FilterKeys(value, dict_keys) ==
    Dict(SelectSeq(value.v, LAMBDA key : key \in DOMAIN dict_keys))

\* the allowed-values and dict-keys blocks on `value`, read off the field
\* definition `field`: the response and the value to store
BackendValueCheck(field, col, value) ==
    IF "allowed_values" \in DOMAIN field /\ ~InList(value, field.allowed_values)
    THEN [resp |-> BackendMustBeOneOf(col, field.allowed_values), value |-> value]
    ELSE IF "dict_keys" \notin DOMAIN field THEN [resp |-> Pass, value |-> value]
    ELSE IF value.k # "dict" THEN [resp |-> InternalError, value |-> value]
    ELSE [resp |-> Pass, value |-> FilterKeys(value, field.dict_keys)]

\* add_item's loop over fields.items() from field i on; item_data is updated
\* as it goes
RECURSIVE BackendAddLoop(_, _, _, _)
BackendAddLoop(fields, coll, item_data, i) ==
    IF i > Len(fields) THEN [resp |-> Pass, item_data |-> item_data]
    ELSE LET field == fields[i]
             col == field.col_name
         IN IF field.unique /\ FindOne(coll, col, item_data[col]) # None
            THEN [resp |-> MustBeUnique(col), item_data |-> item_data]
            ELSE LET r == BackendValueCheck(field, col, item_data[col]) IN
                 IF r.resp # Pass THEN [resp |-> r.resp, item_data |-> item_data]
                 ELSE BackendAddLoop(fields, coll,
                         [item_data EXCEPT ![col] = r.value], i + 1)

\* the effect of add_item(item)
BackendAddItem(fields, store, coll, name, item, now) ==
    LET item_data == ("created_at" :> Strftime(now)) @@ item
        r == IF FindOne(store, "schema_name", name) = None
             THEN [resp |-> Pass, item_data |-> item_data]
             ELSE BackendAddLoop(fields, coll, item_data, 1)
    IN IF r.resp # Pass THEN [coll |-> coll, resp |-> r.resp]
       ELSE [coll |-> InsertOne(coll, r.item_data),
             resp |-> Response(200, <<"Schema added successfully with creation date">>)]

backend_add_item(name, item) ==
    /\ started
    /\ name \in DOMAIN routes
    /\ LET r == BackendAddItem(routes[name], collection, db[name], name, item, clock) IN
        /\ r.resp.status = 200 => Len(db[name]) < MaxDocs
        /\ last' = [op |-> "backend_add_item",
                    req |-> [schema_name |-> name, item |-> item],
                    status |-> r.resp.status, detail |-> r.resp.detail]
        /\ db' = [db EXCEPT ![name] = r.coll]
    /\ UNCHANGED <<collection, routes, started, clock, registered, proc>>

\* the first field of `fields` whose name is a key of item, 0 if none
FieldToUpdate(fields, item) ==
    First(fields, LAMBDA field : field.col_name \in DOMAIN item)

\* the value of the loop variable `field` after the uniqueness loop: the
\* loop breaks at the updated field when it is unique, and else runs to the
\* last field of the schema
BackendCheckedField(fields, u) ==
    IF fields[u].unique THEN fields[u] ELSE fields[Len(fields)]

\* the effect of update_schema_item(item_id, item)
BackendUpdate(fields, store, coll, name, item_id, item) ==
    IF ~ValidOid(item_id) THEN [coll |-> coll, resp |-> Response(400, <<"Invalid ObjectId">>)]
    ELSE IF FindOne(store, "schema_name", name) = None
    THEN [coll |-> coll, resp |-> Response(200, <<"Schema '", name, "' not found">>)]
    ELSE IF FieldToUpdate(fields, item) = 0
    THEN [coll |-> coll, resp |-> Response(400, <<"No valid field provided for update">>)]
    ELSE LET u == FieldToUpdate(fields, item)
             field_to_update == fields[u].col_name
             value == item[field_to_update]
             holder == FindOne(coll, field_to_update, value)
         IN IF FindOne(coll, "_id", ObjectId(item_id)) = None
            THEN [coll |-> coll,
                  resp |-> Response(200, <<"No item found with ID '", item_id,
                                           "' in collection '", name, "'">>)]
            ELSE IF fields[u].unique /\ holder # None /\ holder["_id"] # ObjectId(item_id)
            THEN [coll |-> coll, resp |-> MustBeUnique(field_to_update)]
            ELSE LET r == BackendValueCheck(BackendCheckedField(fields, u),
                                            field_to_update, value) IN
                 IF r.resp # Pass THEN [coll |-> coll, resp |-> r.resp]
                 ELSE [coll |-> UpdateOne(coll, ObjectId(item_id), field_to_update, r.value),
                       resp |-> Response(200, <<"Field '", field_to_update,
                                   "' updated successfully for item with ID '",
                                   item_id, "'">>)]

backend_update_schema_item(name, item_id, item) ==
    /\ started
    /\ name \in DOMAIN routes
    /\ LET r == BackendUpdate(routes[name], collection, db[name], name, item_id, item) IN
        /\ last' = [op |-> "backend_update_schema_item",
                    req |-> [schema_name |-> name, item_id |-> item_id, item |-> item],
                    status |-> r.resp.status, detail |-> r.resp.detail]
        /\ db' = [db EXCEPT ![name] = r.coll]
    /\ UNCHANGED <<collection, routes, started, clock, registered, proc>>

\* the bodies of an update: one column with a value, or two
BackendUpdateBodies ==
    {(c :> v) : c \in {"code", "status", "info"}, v \in {Str("x"), Str("A")}}
    \cup {("info" :> v) : v \in BackendValuesOf("info")}
    \cup {[code |-> Str("x"), status |-> Str("A")], [bogus |-> Str("x")]}

\* update bodies whose value is not of the kind the field declares
MistypedUpdateInputs ==
    {[id |-> OidText(1), updated_fields |-> <<<<"code", v>>>>] :
        v \in {List(<<"A", "B">>), Dict(<<"email">>)}}

----------------------------------------------------------------------------
(* The clock *)

Tick ==
    /\ clock < MaxClock
    /\ clock' = clock + 1
    /\ last' = [op |-> "tick"]
    /\ UNCHANGED <<collection, db, routes, started, registered, proc>>

\* the server process is stopped and started again: the database keeps the
\* schema store and the documents, the app object and its routes are gone
Restart ==
    /\ started
    /\ started' = FALSE
    /\ routes' = <<>>
    /\ proc' = [c \in Clients |-> [pc |-> "idle"]]
    /\ last' = [op |-> "restart"]
    /\ UNCHANGED <<collection, db, clock, registered>>

----------------------------------------------------------------------------
(* Specifications *)

Startup == setup_routes

AddSchema == \E sd \in AddSchemaInputs : add_schema(sd)

ReplaceSchemaFields ==
    \E n \in NameInputs, F \in FieldListInputs : replace_schema_fields(n, F)

GetSchemaField == \E n \in NameInputs : get_schema_field(n)

\* replace requests for the schemas that have routes
ReplaceRouted ==
    \E n \in DOMAIN routes, F \in FieldListInputs : replace_schema_fields(n, F)

AddItem == \E n \in DOMAIN routes : \E item \in Payloads(routes[n]) : add_item(n, item)

UpdateSchemaItem ==
    \E n \in DOMAIN routes, u \in UpdateInputs :
        update_schema_item(n, u.id, u.updated_fields)

\* the schema store and its routes
NextSchema == Startup \/ Tick \/ AddSchema \/ ReplaceSchemaFields \/ GetSchemaField

SpecSchema == Init /\ [][NextSchema]_vars

\* the documents of the schemas that have routes, served within one half day
NextDocs == Startup \/ ReplaceRouted \/ AddItem \/ UpdateSchemaItem

SpecDocs == Init /\ [][NextDocs]_vars

\* create-document requests of several clients, interleaved at their awaits
AddItemBegin ==
    \E c \in Clients, n \in DOMAIN routes :
        \E item \in Payloads(routes[n]) : add_item_begin(c, n, item)

AddItemFetch == \E c \in Clients : add_item_fetch(c)

AddItemCheck == \E c \in Clients : add_item_check(c)

AddItemInsert == \E c \in Clients : add_item_insert(c)

NextRace == Startup \/ AddItemBegin \/ AddItemFetch \/ AddItemCheck \/ AddItemInsert

SpecRace == Init /\ [][NextRace]_vars

GetItemsPage ==
    \E n \in DOMAIN routes, page \in 0..MaxPage, page_size \in 1..MaxPageSize :
        get_items(n, page, page_size)

\* the list endpoint read on a collection at rest
NextList == Startup \/ GetItemsPage

SpecList == InitList /\ [][NextList]_vars

ImportData == \E n \in DOMAIN routes, file \in FileInputs : import_data(n, file)

\* documents created one by one and imported in batches
NextImport == Startup \/ AddItem \/ ImportData

SpecImport == Init /\ [][NextImport]_vars

GetItemsByFieldsRequest ==
    \E n \in DOMAIN routes, f \in FilterInputs : get_items_by_fields(n, f)

\* the filter endpoint read on a collection at rest
NextFilter == Startup \/ GetItemsByFieldsRequest

SpecFilter == InitList /\ [][NextFilter]_vars

\* documents written on different days
NextStamp == Startup \/ Tick \/ AddItem \/ UpdateSchemaItem

SpecStamp == Init /\ [][NextStamp]_vars

GetItemByIdRequest ==
    \E n \in DOMAIN routes, id \in IdInputs \cup {<<"zz">>} : get_item_by_id(n, id)

UpdateMistyped ==
    \E n \in DOMAIN routes, u \in MistypedUpdateInputs :
        update_schema_item(n, u.id, u.updated_fields)

\* the operations addressed to one document by its identifier
NextById == Startup \/ AddItem \/ UpdateSchemaItem \/ UpdateMistyped \/ GetItemByIdRequest

SpecById == Init /\ [][NextById]_vars

AddSchemaCheck ==
    \E c \in Clients, sd \in AddSchemaInputs : add_schema_check(c, sd)

AddSchemaInsert == \E c \in Clients : add_schema_insert(c)

\* add_schema requests of several clients, interleaved at their awaits
NextSchemaRace == Startup \/ AddSchemaCheck \/ AddSchemaInsert

SpecSchemaRace == Init /\ [][NextSchemaRace]_vars

MainThreeAddItemBegin ==
    \E c \in Clients, n \in DOMAIN routes :
        \E item \in MainThreePayloads(routes[n]) : mainthree_add_item_begin(c, n, item)

MainThreeAddItemFetch == \E c \in Clients : mainthree_add_item_fetch(c)

MainThreeAddItemCheck == \E c \in Clients : mainthree_add_item_check(c)

MainThreeAddItemInsert == \E c \in Clients : mainthree_add_item_insert(c)

MainThreeUpdate ==
    \E n \in DOMAIN routes, id \in IdInputs :
        \E item \in MainThreePayloads(routes[n]) : mainthree_update_item(n, id, item)

\* the variant mainthree.py: one create request per client, interleaved, and
\* updates by id
NextMainThree ==
    \/ Startup
    \/ MainThreeAddItemBegin
    \/ MainThreeAddItemFetch
    \/ MainThreeAddItemCheck
    \/ MainThreeAddItemInsert
    \/ MainThreeUpdate

SpecMainThree == MainThreeInit /\ [][NextMainThree]_vars

\* the variant mainthree.py: one create request per client, interleaved
NextMainThreeRace ==
    \/ Startup
    \/ MainThreeAddItemBegin
    \/ MainThreeAddItemFetch
    \/ MainThreeAddItemCheck
    \/ MainThreeAddItemInsert

SpecMainThreeRace == MainThreeInit /\ [][NextMainThreeRace]_vars

BackendAddItemRequest ==
    \E n \in DOMAIN routes :
        \E item \in {it \in [{routes[n][i].col_name : i \in DOMAIN routes[n]} ->
                               UNION {BackendValuesOf(routes[n][i].col_name) :
                                         i \in DOMAIN routes[n]}] :
                        \A i \in DOMAIN routes[n] :
                           it[routes[n][i].col_name] \in BackendValuesOf(routes[n][i].col_name)} :
            backend_add_item(n, item)

BackendUpdateRequest ==
    \E n \in DOMAIN routes, id \in IdInputs \cup {<<"zz">>}, item \in BackendUpdateBodies :
        backend_update_schema_item(n, id, item)

\* the variant Backend.py: creates and updates by id, one after the other
NextBackend == Startup \/ BackendAddItemRequest \/ BackendUpdateRequest

SpecBackend == BackendInit /\ [][NextBackend]_vars

\* the routes over the lives of the process
NextRoutes == Startup \/ AddSchema \/ Restart

SpecRoutes == Init /\ [][NextRoutes]_vars

Next == NextSchema \/ NextDocs \/ NextRace \/ NextRoutes \/ NextList \/ NextImport \/ NextFilter \/ NextStamp \/ NextById \/ NextSchemaRace

Spec == Init /\ [][Next]_vars

----------------------------------------------------------------------------
(* Claims on the schema store, checked under SpecSchema *)

WellFormed(schema_data) == {"schema_name", "fields"} \subseteq DOMAIN schema_data

\* C1: once add_schema has succeeded for a name, every later add_schema whose
\* name is equal to it up to letter case fails with the duplicate-schema
\* error (400) and leaves the schema store, hence the stored definition, as it was
C1_DuplicateSchemaRejected ==
    [][(/\ last'.op = "add_schema"
        /\ WellFormed(last'.req)
        /\ Lower(last'.req.schema_name) \in registered)
       => (/\ last'.status = 400
           /\ last'.detail = AddSchemaDuplicate
           /\ collection' = collection)]_vars

\* a name differing in case from a registered one has been refused
C1_Witness ==
    /\ last.op = "add_schema"
    /\ WellFormed(last.req)
    /\ last.req.schema_name # Lower(last.req.schema_name)
    /\ Lower(last.req.schema_name) \in registered
    /\ last.status = 400
    /\ last.detail = AddSchemaDuplicate

\* C9: replace_schema_fields(name, F) on an existing schema followed at once by
\* get_schema_field(name) returns fields F, schema_name name and the date of
\* the replace call as created_at
C9_ReplaceThenGet ==
    [][(/\ last.op = "replace_schema_fields"
        /\ last.status = 200
        /\ last'.op = "get_schema_field"
        /\ last'.req.schema_name = last.req.schema_name)
       => (/\ last'.status = 200
           /\ last'.detail.fields = last.req.new_fields
           /\ last'.detail.schema_name = last.req.schema_name
           /\ last'.detail.created_at = Strftime(clock))]_vars

\* the schema found at startup (created on day 0) is read back with replaced
\* fields and a later date
C9_Witness ==
    /\ last.op = "get_schema_field"
    /\ last.status = 200
    /\ last.req.schema_name = <<"s">>
    /\ last.detail.fields = FL3
    /\ last.detail.created_at = Strftime(clock)
    /\ last.detail.created_at # 0

\* C10: replace_schema_fields on a name with no stored schema fails with
\* "Schema not found" (404) and leaves the schema store unchanged
C10_ReplaceUnknownFails ==
    [][(/\ last'.op = "replace_schema_fields"
        /\ FindOne(collection, "schema_name", last'.req.schema_name) = None)
       => (/\ last'.status = 404
           /\ last'.detail = <<"Schema not found">>
           /\ collection' = collection)]_vars

C10_Witness ==
    /\ last.op = "replace_schema_fields"
    /\ FindOne(collection, "schema_name", last.req.schema_name) = None
    /\ last.status = 404

----------------------------------------------------------------------------
(* Claims on create-document and update-by-id, checked under SpecDocs *)

\* the stored definition a document request of schema `name` is validated against
DefOf(name) == FindOne(collection, "schema_name", name)

\* some document of the collection holds value under col
Holds(coll, col, value) ==
    \E i \in DOMAIN coll : col \in DOMAIN coll[i] /\ coll[i][col] = value

Keys(value) == Range(value.v)

\* the create request passes every check other than the dict-key check of field i
OtherChecksPass(fields, item, coll, i) ==
    /\ \A j \in DOMAIN fields \ {i} :
          CreateFieldCheck(FieldModel(fields[j]), item, coll) = Pass
    /\ CreateUniqueCheck(FieldModel(fields[i]), item, coll) = Pass
    /\ CreateAllowedCheck(FieldModel(fields[i]), item) = Pass

\* the create request passes the checks of the fields before field i
EarlierChecksPass(fields, item, coll, i) ==
    \A j \in 1..(i - 1) : CreateFieldCheck(FieldModel(fields[j]), item, coll) = Pass

\* a create-document step on a schema whose stored definition is well formed
CreateStep ==
    /\ last'.op = "add_item"
    /\ DefOf(last'.req.schema_name) # None
    /\ ValidSchemaDoc(DefOf(last'.req.schema_name))

\* C2: a create-document request carrying, for a unique field, a value that a
\* stored document already holds fails and inserts nothing; the error is
\* "<field> must be unique" when the fields before it pass their checks
C2_SecondInsertRejected ==
    [][CreateStep =>
        LET name == last'.req.schema_name
            item == last'.req.item
            fields == DefOf(name).fields
        IN \A i \in DOMAIN fields :
              (/\ Set(FieldModel(fields[i]), "unique")
               /\ fields[i].col_name \in DOMAIN item
               /\ Holds(db[name], fields[i].col_name, item[fields[i].col_name]))
              => (/\ last'.status # 200
                  /\ db' = db
                  /\ EarlierChecksPass(fields, item, db[name], i)
                       => /\ last'.status = 400
                          /\ last'.detail = <<fields[i].col_name, " must be unique">>)
      ]_vars

\* a create request was refused because a stored document holds its code
C2_Witness ==
    /\ last.op = "add_item"
    /\ last.status = 400
    /\ last.detail = <<"code", " must be unique">>
    /\ Holds(db[last.req.schema_name], "code", last.req.item["code"])
    /\ Len(db[last.req.schema_name]) = 1

\* C4 (as claimed): a create-document or update-by-id request that fails
\* leaves the schema's collection exactly as it was
C4_FailedWriteChangesNothing ==
    [][(/\ last'.op \in {"add_item", "update_schema_item"}
        /\ last'.status # 200)
       => db' = db]_vars

\* the first supplied pair of an update request, when the request reaches the
\* uniqueness check of a unique field with it
UniqueUpdateStep ==
    /\ last'.op = "update_schema_item"
    /\ ValidOid(last'.req.id)
    /\ DefOf(last'.req.schema_name) # None
    /\ LET fields == DefOf(last'.req.schema_name).fields
           f == last'.req.updated_fields[1][1]
           v == last'.req.updated_fields[1][2]
       IN /\ Len(last'.req.updated_fields) = 1
          /\ \E i \in DOMAIN fields :
                /\ {"col_name", "unique"} \subseteq DOMAIN fields[i]
                /\ fields[i].col_name = f /\ fields[i].unique = TRUE
          /\ UpdateExistsCheck(fields, f, last'.req.schema_name) = Pass
          /\ UpdateStrCheck(fields, f, v) = Pass

UniqueRejected ==
    /\ last'.status = 400
    /\ last'.detail = <<last'.req.updated_fields[1][1], " must be unique">>

\* C5 (as claimed): update-by-id of d setting unique field f to v is rejected
\* with the uniqueness error iff some document other than d holds f = v
C5_RejectedIffOtherHolds ==
    [][UniqueUpdateStep =>
        LET coll == db[last'.req.schema_name]
            f == last'.req.updated_fields[1][1]
            v == last'.req.updated_fields[1][2]
            d == ObjectId(last'.req.id)
        IN UniqueRejected <=>
             \E i \in DOMAIN coll :
                 coll[i]["_id"] # d /\ f \in DOMAIN coll[i] /\ coll[i][f] = v
      ]_vars

\* C5 (amended): it is rejected with the uniqueness error iff the first
\* document of the collection that holds f = v is a document other than d;
\* when at most one document holds v, that is: iff a document other than d holds v
C5_RejectedIffFirstHolderIsOther ==
    [][UniqueUpdateStep =>
        LET coll == db[last'.req.schema_name]
            f == last'.req.updated_fields[1][1]
            v == last'.req.updated_fields[1][2]
            d == ObjectId(last'.req.id)
            HoldsAt(i) == f \in DOMAIN coll[i] /\ coll[i][f] = v
        IN /\ UniqueRejected <=>
                \E i \in DOMAIN coll :
                    /\ HoldsAt(i) /\ coll[i]["_id"] # d
                    /\ \A j \in 1..(i - 1) : ~HoldsAt(j)
           /\ Cardinality({i \in DOMAIN coll : HoldsAt(i)}) <= 1
                => (UniqueRejected <=> \E i \in DOMAIN coll : HoldsAt(i) /\ coll[i]["_id"] # d)
           /\ UniqueRejected => db' = db
      ]_vars

\* an update setting a unique field to the value another document holds was
\* refused, with two documents stored
C5_Witness ==
    /\ last.op = "update_schema_item"
    /\ Len(last.req.updated_fields) = 1
    /\ last.status = 400
    /\ last.detail = <<"code", " must be unique">>
    /\ LET coll == db[last.req.schema_name] IN
         /\ Len(coll) = 2
         /\ \E i, j \in DOMAIN coll :
               /\ coll[i]["_id"] = ObjectId(last.req.id)
               /\ coll[j]["_id"] # ObjectId(last.req.id)
               /\ coll[j]["code"] = last.req.updated_fields[1][2]
               /\ coll[i]["code"] # coll[j]["code"]

\* a create-document step offers a dict value for field i, a dict-kind field
\* that declares dict_keys
DictFieldOffered(fields, item, i) ==
    /\ fields[i].type = "dict"
    /\ "dict_keys" \in DOMAIN fields[i]
    /\ fields[i].col_name \in DOMAIN item
    /\ item[fields[i].col_name].k = "dict"

\* the nested-key contract of create-document for field i: a key outside K
\* is refused, naming the field and such a key; keys within K are accepted
NestedKeyContract(name, fields, item, i) ==
    LET col == fields[i].col_name
        K == DOMAIN fields[i].dict_keys
    IN IF Keys(item[col]) \subseteq K
       THEN OtherChecksPass(fields, item, db[name], i)
              => /\ last'.status = 200
                 /\ db'[name] = InsertOne(db[name], ItemDataDict(item, clock))
       ELSE /\ last'.status # 200
            /\ db' = db
            /\ OtherChecksPass(fields, item, db[name], i)
                 => /\ last'.status = 400
                    /\ \E key \in Keys(item[col]) \ K :
                          last'.detail = <<"Invalid key for ", col, ": ", key>>

\* C6 (as claimed): for every dict-kind field with declared dict_keys K
C6_NestedKeysAnyK ==
    [][CreateStep =>
        LET name == last'.req.schema_name
            item == last'.req.item
            fields == DefOf(name).fields
        IN \A i \in DOMAIN fields :
              DictFieldOffered(fields, item, i) => NestedKeyContract(name, fields, item, i)
      ]_vars

\* C6 (amended): for every dict-kind field whose declared dict_keys K is not empty
C6_NestedKeysNonEmptyK ==
    [][CreateStep =>
        LET name == last'.req.schema_name
            item == last'.req.item
            fields == DefOf(name).fields
        IN \A i \in DOMAIN fields :
              (DictFieldOffered(fields, item, i) /\ DOMAIN fields[i].dict_keys # {})
              => NestedKeyContract(name, fields, item, i)
      ]_vars

\* a value with the undeclared key ssn was refused by name, while a document
\* holding only the declared key email is stored
C6_Witness ==
    /\ last.op = "add_item"
    /\ last.status = 400
    /\ last.detail = <<"Invalid key for ", "info", ": ", "ssn">>
    /\ DefOf(last.req.schema_name).fields = FL1
    /\ \E i \in DOMAIN db[last.req.schema_name] :
          db[last.req.schema_name][i]["info"] = Dict(<<"email">>)

\* C7 (as claimed): for a list-kind field with allowed_values A, a list is
\* accepted by create-document iff each of its elements is a member of A
C7_ListAllowedValues ==
    [][CreateStep =>
        LET name == last'.req.schema_name
            item == last'.req.item
            fields == DefOf(name).fields
        IN \A i \in DOMAIN fields :
              (/\ fields[i].type = "list"
               /\ Set(FieldModel(fields[i]), "allowed_values")
               /\ fields[i].col_name \in DOMAIN item
               /\ item[fields[i].col_name].k = "list"
               /\ \A j \in DOMAIN fields \ {i} :
                     CreateFieldCheck(FieldModel(fields[j]), item, db[name]) = Pass
               /\ CreateUniqueCheck(FieldModel(fields[i]), item, db[name]) = Pass)
              => (last'.status = 200
                    <=> Range(item[fields[i].col_name].v) \subseteq Range(fields[i].allowed_values))
      ]_vars

\* C8 (as claimed): update-by-id accepts a value for a dict-kind field with
\* dict_keys exactly when create-document accepts it
C8_UpdateKeysAsCreate ==
    [][(/\ last'.op = "update_schema_item"
        /\ ValidOid(last'.req.id)
        /\ DefOf(last'.req.schema_name) # None
        /\ ValidSchemaDoc(DefOf(last'.req.schema_name))
        /\ Len(last'.req.updated_fields) = 1)
       => LET fields == DefOf(last'.req.schema_name).fields
              f == last'.req.updated_fields[1][1]
              v == last'.req.updated_fields[1][2]
          IN \A i \in DOMAIN fields :
                (/\ fields[i].col_name = f
                 /\ fields[i].type = "dict"
                 /\ "dict_keys" \in DOMAIN fields[i]
                 /\ DOMAIN fields[i].dict_keys # {}
                 /\ "allowed_values" \notin DOMAIN fields[i]
                 /\ v.k = "dict")
                => (last'.status = 200
                      <=> CreateDictCheck(FieldModel(fields[i]), f :> v) = Pass)
      ]_vars

----------------------------------------------------------------------------
(* Claims on interleaved create-document requests, checked under SpecRace *)

\* the collection holds the request's value for a field its definition marks unique
UniqueValueHeld(p) ==
    \E i \in DOMAIN p.fields :
        /\ Set(FieldModel(p.fields[i]), "unique")
        /\ Holds(db[p.schema_name], p.fields[i].col_name, p.item[p.fields[i].col_name])

\* C3: the uniqueness check and the insert are not one atomic step: a
\* create-document request that has passed its checks inserts its document and
\* answers 200 even when, by the time of its insert, another request has
\* stored the same value for a unique field; nothing at the storage level
\* refuses the second document.  C3_Witness is the interleaving itself.
C3_CheckThenInsertNotAtomic ==
    [][\A c \in Clients :
          (/\ proc[c].pc = "insert"
           /\ proc'[c].pc = "done"
           /\ UniqueValueHeld(proc[c]))
          => (/\ proc'[c].status = 200
              /\ Len(db'[proc[c].schema_name]) = Len(db[proc[c].schema_name]) + 1
              /\ Holds(db'[proc[c].schema_name], "_id",
                       Len(db[proc[c].schema_name]) + 1))
      ]_vars

\* both concurrent requests carried the same value for the unique field code,
\* both were answered 200 and both documents are stored
C3_Witness ==
    /\ \A c \in Clients : proc[c].pc = "done" /\ proc[c].status = 200
    /\ proc["c1"].schema_name = proc["c2"].schema_name
    /\ proc["c1"].item["code"] = proc["c2"].item["code"]
    /\ \E i \in DOMAIN proc["c1"].fields :
          /\ proc["c1"].fields[i].col_name = "code"
          /\ Set(FieldModel(proc["c1"].fields[i]), "unique")
    /\ LET coll == db[proc["c1"].schema_name] IN
          /\ Len(coll) = 2
          /\ coll[1]["code"] = coll[2]["code"]

----------------------------------------------------------------------------
(* Further claims on documents, checked under SpecDocs *)

\* C11: replace_schema_fields changes the stored definition only: every
\* collection of documents is the same before and after the call, also when
\* stored documents do not fit the new field list
C11_ReplaceKeepsDocuments ==
    [][last'.op = "replace_schema_fields" => db' = db]_vars

\* a replace succeeded on a schema one of whose stored documents lacks a
\* column of the new field list
C11_Witness ==
    /\ last.op = "replace_schema_fields"
    /\ last.status = 200
    /\ \E j \in DOMAIN db[last.req.schema_name], i \in DOMAIN last.req.new_fields :
          /\ "col_name" \in DOMAIN last.req.new_fields[i]
          /\ last.req.new_fields[i].col_name \notin DOMAIN db[last.req.schema_name][j]

----------------------------------------------------------------------------
(* Claims on the routes, checked under SpecRoutes *)

\* C12 (as claimed): when add_schema has succeeded for a schema its routes
\* are active in the same process, so a create-document request for it
\* reaches its handler
C12_RegisteredIsRouted ==
    (last.op = "add_schema" /\ last.status = 200)
        => Lower(last.req.schema_name) \in DOMAIN routes

\* C13: when setup_routes has finished, the names that have routes are
\* exactly the names of the schema definitions stored at that moment
C13_RoutesAreStoredSchemas ==
    [][last'.op = "startup" =>
        /\ DOMAIN routes' = {collection[i].schema_name : i \in DOMAIN collection}
        /\ collection' = collection]_vars

\* the startup handler has just finished in a process whose store holds two
\* schemas, one of them registered in an earlier life of the process
C13_Witness ==
    /\ last.op = "startup"
    /\ Len(collection) = 2
    /\ registered # {}
    /\ registered \subseteq DOMAIN routes
    /\ Cardinality(DOMAIN routes) = 2

----------------------------------------------------------------------------
(* Claims on the list endpoint, checked under SpecList *)

\* the pages 1..p of size s of the collection, one after the other
RECURSIVE PagesUpTo(_, _, _)
PagesUpTo(coll, p, s) ==
    IF p = 0 THEN <<>>
    ELSE PagesUpTo(coll, p - 1, s) \o GetItems(coll, p, s).detail

\* ceil(n / s)
CeilDiv(n, s) == (n + s - 1) \div s

\* C14: for page p >= 1 and page_size s >= 1 on a collection of n documents
\* the list endpoint answers with exactly the documents at positions
\* (p-1)*s+1 .. min(p*s, n), in insertion order (their _id as text), and the
\* pages 1..ceil(n/s) together hold every document exactly once
C14_Pagination ==
    /\ (last.op = "get_items" /\ last.req.page >= 1) =>
          LET coll == db[last.req.schema_name]
              p == last.req.page
              s == last.req.page_size
              n == Len(coll)
              hi == IF p * s < n THEN p * s ELSE n
              lo == (p - 1) * s + 1
          IN /\ last.status = 200
             /\ Len(last.detail) = (IF hi >= lo THEN hi - lo + 1 ELSE 0)
             /\ \A i \in DOMAIN last.detail :
                   last.detail[i] = [coll[lo + i - 1] EXCEPT !["_id"] = OidText(@)]
    /\ \A name \in DOMAIN db, s \in 1..MaxPageSize :
          PagesUpTo(db[name], CeilDiv(Len(db[name]), s), s) = WithIdText(db[name])

\* page 2 of size 3 was read on a collection of 4 documents: one document,
\* the last, is returned
C14_Witness ==
    /\ last.op = "get_items"
    /\ last.req.page = 2
    /\ last.req.page_size = 3
    /\ Len(db[last.req.schema_name]) = 4
    /\ Len(last.detail) = 1
    /\ last.detail[1]["_id"] = OidText(4)

----------------------------------------------------------------------------
(* Claims on batch import, checked under SpecImport *)

\* an import step of a CSV or Excel file into a schema that is stored
ImportStep ==
    /\ last'.op = "import_data"
    /\ DefOf(last'.req.schema_name) # None
    /\ last'.req.file.ext \in {"csv", "xlsx"}

\* C15 (as claimed): an import of a file of N rows never fails as a request;
\* every row is inserted or reported once under invalid_data with at least
\* one error, and inserted rows + reported rows = N
C15_ImportAccountsForEveryRow ==
    [][ImportStep =>
        LET name == last'.req.schema_name IN
        /\ last'.status = 200
        /\ Len(db'[name]) - Len(db[name]) + Len(last'.detail.invalid_data)
              = Len(last'.req.file.rows)
        /\ \A j \in DOMAIN last'.detail.invalid_data :
              /\ last'.detail.invalid_data[j].errors # <<>>
              /\ last'.detail.invalid_data[j].data \in Range(last'.req.file.rows)
      ]_vars

\* the record a row stands for: the cells of dict-kind columns parsed
RecordOf(fields, row) ==
    [c \in DOMAIN row |->
        IF \E i \in DOMAIN fields : fields[i].col_name = c /\ fields[i].type = "dict"
        THEN JsonLoads(row[c]) ELSE row[c]]

\* the row has a cell for every field, of the field's kind once parsed
RowIsRecord(fields, row) ==
    \A i \in DOMAIN fields :
        /\ fields[i].col_name \in DOMAIN row
        /\ row[fields[i].col_name].k = "str"
        /\ fields[i].type # "str" =>
              /\ JsonParses(row[fields[i].col_name])
              /\ JsonLoads(row[fields[i].col_name]).k = fields[i].type

\* C16 (as claimed): import_data accepts a row exactly when add_item accepts
\* the same record in the same store state
C16_ImportValidatesAsCreate ==
    [][(ImportStep /\ last'.status = 200) =>
        LET name == last'.req.schema_name
            fields == DefOf(name).fields
            rows == last'.req.file.rows
        IN \A r \in DOMAIN rows :
              RowIsRecord(fields, rows[r]) =>
                 ((\A j \in DOMAIN last'.detail.invalid_data :
                       last'.detail.invalid_data[j].data # rows[r])
                  <=> AddItemResponse(collection, db[name], name,
                                      RecordOf(fields, rows[r])).status = 200)
      ]_vars

----------------------------------------------------------------------------
(* Claims on the filter endpoint, checked under SpecFilter *)

\* the field names the routes of a schema were generated with
FieldNames(name) == {routes[name][i].col_name : i \in DOMAIN routes[name]}

\* C17 (as claimed): a filter whose segments all have the form field:value
\* gives one condition per segment with the value as a string, and a filter
\* with a segment that has not exactly one ":" is answered with a client
\* error (4xx)
C17_FilterParsing ==
    (last.op = "get_items_by_fields") =>
        LET filters == Split(last.req.filter, ",") IN
        IF \A i \in DOMAIN filters : Unpacks(filters[i])
        THEN /\ last.status = 200
             /\ \A i \in DOMAIN filters :
                   /\ FilterItem(filters[i]).field \in DOMAIN last.query
                   /\ (\A j \in (i + 1)..Len(filters) :
                          FilterItem(filters[j]).field # FilterItem(filters[i]).field)
                      => last.query[FilterItem(filters[i]).field]
                            = FilterItem(filters[i]).value
        ELSE last.status \in 400..499

\* C18 (as claimed): the query sent to the collection holds exactly the
\* conditions whose field the schema declares, and the request does not fail
C18_UnknownFieldsDropped ==
    (last.op = "get_items_by_fields" /\ last.status = 200) =>
        DOMAIN last.query \subseteq FieldNames(last.req.schema_name)

----------------------------------------------------------------------------
(* Claims on the timestamp of a document, checked under SpecStamp *)

\* C19 (as claimed): after a successful create-document or update-by-id the
\* written document's modified_date is the server's date of that write
C19_WriteStampsDate ==
    [][(last'.op \in {"add_item", "update_schema_item"} /\ last'.status = 200) =>
        LET name == last'.req.schema_name IN
        /\ last'.op = "add_item" =>
              db'[name][Len(db'[name])].modified_date = Strftime(clock)
        /\ (/\ last'.op = "update_schema_item"
            /\ DefOf(name) # None
            /\ last'.req.updated_fields # <<>>)
           => \A i \in DOMAIN db'[name] :
                 db'[name][i]["_id"] = ObjectId(last'.req.id)
                    => db'[name][i].modified_date = Strftime(clock)
      ]_vars

----------------------------------------------------------------------------
(* Claims on the stored schema names, checked under SpecSchema *)

\* space, tab, newline
Whitespace == {" ", "\t", "\n"}

\* C20 (as claimed): add_schema refuses a name with a whitespace character,
\* so every stored schema name is lowercase and free of whitespace
C20_StoredNamesClean ==
    \A i \in DOMAIN collection :
        /\ collection[i].schema_name = Lower(collection[i].schema_name)
        /\ \A j \in DOMAIN collection[i].schema_name :
              collection[i].schema_name[j] \notin Whitespace

----------------------------------------------------------------------------
(* Claims on the operations by identifier, checked under SpecById *)

\* C21 (as claimed): get-by-id and update-by-id answer a malformed
\* identifier with a client error (4xx) and change no stored state
C21_MalformedIdIsClientError ==
    [][(/\ last'.op \in {"get_item_by_id", "update_schema_item"}
        /\ ~ValidOid(last'.req.id))
       => (/\ last'.status \in 400..499
           /\ db' = db
           /\ collection' = collection)]_vars

\* C22 (as claimed): an update-by-id whose value for a string field is not a
\* string is rejected and the value is not stored
C22_UpdateChecksKind ==
    [][(/\ last'.op = "update_schema_item"
        /\ ValidOid(last'.req.id)
        /\ DefOf(last'.req.schema_name) # None
        /\ \E i \in DOMAIN last'.req.updated_fields,
              j \in DOMAIN DefOf(last'.req.schema_name).fields :
              /\ DefOf(last'.req.schema_name).fields[j].col_name
                    = last'.req.updated_fields[i][1]
              /\ DefOf(last'.req.schema_name).fields[j].type = "str"
              /\ last'.req.updated_fields[i][2].k # "str")
       => (/\ last'.status \in 400..499
           /\ db' = db)]_vars

\* C25 (as claimed): an update-by-id with a well-formed identifier that no
\* document of the collection has does not answer with the success message,
\* and leaves the collection as it was
C25_UpdateOfMissingDocumentFails ==
    [][(/\ last'.op = "update_schema_item"
        /\ ValidOid(last'.req.id)
        /\ FindOne(db[last'.req.schema_name], "_id", ObjectId(last'.req.id)) = None)
       => (/\ last'.status # 200
           /\ db' = db)]_vars

----------------------------------------------------------------------------
(* Claims on uniqueness over sequential requests, checked under SpecImport *)

\* C24 (as claimed): requests served one after the other on a collection
\* that started empty never leave two documents with the same value for a
\* field the schema marks unique
C24_UniqueFieldsHoldDistinctValues ==
    \A k \in DOMAIN collection :
        LET name == collection[k].schema_name
            fields == collection[k].fields
        IN \A i \in DOMAIN fields :
              Get(fields[i], "unique", FALSE) = TRUE =>
                 \A a, b \in DOMAIN db[name] :
                    (/\ a # b
                     /\ fields[i].col_name \in DOMAIN db[name][a]
                     /\ fields[i].col_name \in DOMAIN db[name][b])
                    => db[name][a][fields[i].col_name] # db[name][b][fields[i].col_name]

----------------------------------------------------------------------------
(* Claims on create-document after a replace, checked under SpecDocs *)

\* C26 (as claimed): a create-document request served after the schema's
\* field list was replaced by a well-formed list F is validated against F:
\* it inserts its document or is answered with a validation error (4xx),
\* never with an internal error
C26_CreateAfterReplaceValidates ==
    [][CreateStep =>
        \/ last'.status = 200 /\ Len(db'[last'.req.schema_name])
                                    = Len(db[last'.req.schema_name]) + 1
        \/ last'.status \in 400..499 /\ db' = db]_vars

----------------------------------------------------------------------------
(* Claims on the skip offset of the list endpoint, checked under SpecList *)

\* C28 (as claimed): for every page and page_size the list endpoint accepts
\* (page >= 0, its default being 0, and page_size > 0) the skip offset
\* (page - 1) * page_size is not negative and the request returns a page
C28_SkipIsNeverNegative ==
    (last.op = "get_items") =>
        /\ (last.req.page - 1) * last.req.page_size >= 0
        /\ last.status = 200

----------------------------------------------------------------------------
(* Claims on concurrent registrations, checked under SpecSchemaRace *)

\* C27 (as claimed): under any interleaving of add_schema requests the
\* schema store holds at most one definition per schema name
C27_OneDefinitionPerName ==
    \A i, j \in DOMAIN collection :
        i # j => collection[i].schema_name # collection[j].schema_name

----------------------------------------------------------------------------
(* Claims on the variant mainthree.py *)

\* C23 (as claimed), checked under SpecMainThreeRace: the unique index that
\* add_schema creates is a backstop of the uniqueness check: under any
\* interleaving of create-document requests no two stored documents have
\* the same value for a field marked unique ("Y")
C23_IndexBacksUniqueFields ==
    \A k \in DOMAIN collection :
        LET name == collection[k].schema_name
            fields == collection[k].fields
        IN \A i \in DOMAIN fields :
              fields[i].unique = "Y" =>
                 \A a, b \in DOMAIN db[name] :
                    a # b => db[name][a][fields[i].col_name]
                                # db[name][b][fields[i].col_name]

\* C29 (as claimed), checked under SpecMainThree: update_item answers 404
\* "Item not found" only when no document of the collection has the id
C29_NotFoundOnlyWhenMissing ==
    [][(/\ last'.op = "update_item"
        /\ ValidOid(last'.req.item_id)
        /\ last'.status = 404)
       => FindOne(db[last'.req.schema_name], "_id", ObjectId(last'.req.item_id)) = None
      ]_vars

\* an update of the variant that reaches the value checks: the id is well
\* formed, the schema is stored, a field of the schema is supplied, the
\* document exists and the uniqueness check passes
BackendReachesChecks(n, id, item) ==
    /\ ValidOid(id)
    /\ FindOne(collection, "schema_name", n) # None
    /\ FieldToUpdate(routes[n], item) # 0
    /\ FindOne(db[n], "_id", ObjectId(id)) # None
    /\ LET own == routes[n][FieldToUpdate(routes[n], item)]
           holder == FindOne(db[n], own.col_name, item[own.col_name])
       IN own.unique => (holder = None \/ holder["_id"] = ObjectId(id))

\* C30: in update_schema_item of the variant Backend.py, the allowed-values
\* and dict-keys checks applied to the updated field f are those of f's own
\* definition, wherever f stands in the schema and whether it is unique or
\* not: the new value is accepted iff it satisfies f's own allowed_values,
\* and what is stored is the value filtered by f's own dict_keys only.
C30_ChecksAreTheUpdatedFieldsOwn ==
    [][ (/\ last'.op = "backend_update_schema_item"
         /\ BackendReachesChecks(last'.req.schema_name, last'.req.item_id, last'.req.item))
        => LET n == last'.req.schema_name
               own == routes[n][FieldToUpdate(routes[n], last'.req.item)]
               value == last'.req.item[own.col_name]
               oid == ObjectId(last'.req.item_id)
           IN ("dict_keys" \in DOMAIN own => value.k = "dict")
              => /\ last'.status = 200
                      <=> ("allowed_values" \in DOMAIN own
                              => InList(value, own.allowed_values))
                 /\ last'.status = 200
                      => FindOne(db'[n], "_id", oid)[own.col_name]
                           = IF "dict_keys" \in DOMAIN own
                             THEN FilterKeys(value, own.dict_keys) ELSE value
      ]_vars

====
